---- MODULE Spec2Model ----
(***************************************************************************)
(* Model of solve_schedule_ortools (or_tools_scheduler.py): the CP-SAT      *)
(* model the function assembles from the staffing tables, the backend's     *)
(* answer to it, and the schedule materialised from that answer.            *)
(*                                                                          *)
(* One call of the function is one behaviour: Init fixes the arguments      *)
(* (inp), and the actions are the blocks of the function body in order.     *)
(***************************************************************************)
EXTENDS Integers, Sequences, FiniteSets, TLC

VARIABLES
    inp,          \* the arguments of the call (immutable snapshot)
    pc,           \* position in the function body
    demand,       \* dict (day, room, shift) -> required nurses
    pref,         \* dict (nurse, day, shift) -> preference
    locks,        \* dict items (day, shift, room, nurse) -> locked, insertion order
    x,            \* keys (n, rid, sh, d) of the assignment variables, insertion order
    mvars,        \* CpModel: variable -> <<lo, hi>>
    cons,         \* CpModel: the linear constraints added so far
    obj,          \* the list of objective terms
    status,       \* the backend's status name
    sol,          \* the backend's solution (variable -> value), <<>> when none
    meta,         \* the returned summary
    out,          \* the returned schedule rows
    err           \* the raised error, <<>> when none

vars == <<inp, pc, demand, pref, locks, x, mvars, cons, obj, status, sol, meta, out, err>>

\* ------------------------------------------------------------------ bounds
MaxDemand == 2
MaxCap == 2
SampleWidth == 1

\* program constants
SlackMax == 100
FairMax == 1000

\* ------------------------------------------------------------------ helpers
None == <<>>
Some(v) == <<v>>

Range(s) == {s[i] : i \in DOMAIN s}

Max(S) == CHOOSE m \in S : \A e \in S : e <= m
Min(S) == CHOOSE m \in S : \A e \in S : m <= e

RECURSIVE SumSet(_, _)
\* sum of f[e] over the finite set S
SumSet(S, f) ==
    IF S = {} THEN 0
    ELSE LET e == CHOOSE e \in S : TRUE IN f[e] + SumSet(S \ {e}, f)

RECURSIVE SumSeq(_)
SumSeq(s) == IF s = <<>> THEN 0 ELSE Head(s) + SumSeq(Tail(s))

\* str.strip() on the tokens the inputs use
strip(t) ==
    CASE t = " " -> ""
      [] t = " ICU" -> "ICU"
      [] t = "Charge " -> "Charge"
      [] OTHER -> t

\* s is the field already split on ";": the set of stripped, non-empty tokens
parse_semicolon_set(s) == {strip(s[i]) : i \in DOMAIN s} \ {""}

\* index of the last row with key k, keys[i] being the key of row i: the row a
\* dict assignment in a loop leaves under k
LastIdx(keys, k) == Max({i \in DOMAIN keys : keys[i] = k})

\* ------------------------------------------------------------------ lookups
PrefKey(r) == <<r.nurse_id, r.day, r.shift>>
pref_lookup(pref_rows) ==
    LET keys == [i \in DOMAIN pref_rows |-> PrefKey(pref_rows[i])]
    IN [k \in Range(keys) |-> pref_rows[LastIdx(keys, k)].preference]

LockKey(r) == <<r.day, r.shift, r.room_id, r.nurse_id>>
\* dict items in insertion order: a key sits where it was first inserted and
\* holds the value of its last row
\* (a lookup that keeps the first row of a key instead)
locks_lookup_firstwins(lock_rows) ==
    LET first == SelectSeq([i \in DOMAIN lock_rows |-> i],
                     LAMBDA i : \A j \in 1..(i-1) : LockKey(lock_rows[j]) # LockKey(lock_rows[i]))
    IN [p \in DOMAIN first |->
          [key |-> LockKey(lock_rows[first[p]]), locked |-> lock_rows[first[p]].locked]]

locks_lookup(lock_rows) ==
    LET keys == [i \in DOMAIN lock_rows |-> LockKey(lock_rows[i])]
        first == SelectSeq([i \in DOMAIN lock_rows |-> i],
                     LAMBDA i : \A j \in 1..(i-1) : keys[j] # keys[i])
    IN [p \in DOMAIN first |->
          [key |-> keys[first[p]], locked |-> lock_rows[LastIdx(keys, keys[first[p]])].locked]]

DemandKey(r) == <<r.day, r.room_id, r.shift>>

nurse_ids == [i \in DOMAIN inp.nurses |-> inp.nurses[i].nurse_id]
room_ids == [i \in DOMAIN inp.rooms |-> inp.rooms[i].room_id]
days == inp.days
shifts == inp.shifts

NurseRow(n) == inp.nurses[LastIdx(nurse_ids, n)]
RoomRow(rid) == inp.rooms[LastIdx(room_ids, rid)]

max_per_day == [n \in Range(nurse_ids) |-> NurseRow(n).max_shifts_per_day]
max_per_week == [n \in Range(nurse_ids) |-> NurseRow(n).max_shifts_per_week]
cert_by_nurse == [n \in Range(nurse_ids) |-> NurseRow(n).certification]
qual_by_nurse == [n \in Range(nurse_ids) |-> parse_semicolon_set(NurseRow(n).qualifications)]
req_by_room == [rid \in Range(room_ids) |-> parse_semicolon_set(RoomRow(rid).required_qualifications)]
tag_by_room == [rid \in Range(room_ids) |-> RoomRow(rid).tags]

\* the demand dict: the table's rows, then 0 for every horizon slot without one
DemandDict ==
    LET rows == inp.demand
        keys == [i \in DOMAIN rows |-> DemandKey(rows[i])]
        given == Range(keys)
        horizon == {<<d, rid, sh>> : d \in Range(days), rid \in Range(room_ids), sh \in Range(shifts)}
    IN [k \in given \cup horizon |->
          IF k \in given THEN rows[LastIdx(keys, k)].required_nurses ELSE 0]

feasible_reversed(n, rid) == qual_by_nurse[n] \subseteq req_by_room[rid]

feasible(n, rid) == req_by_room[rid] \subseteq qual_by_nurse[n]

\* nested loops "for a in A: for b in B: for c in C: for e in E" as one sequence
Loop4(A, B, C, E) ==
    LET nb == Len(B)  nc == Len(C)  ne == Len(E)
    IN [i \in 1..(Len(A) * nb * nc * ne) |->
          <<A[((i-1) \div (nb * nc * ne)) + 1],
            B[(((i-1) \div (nc * ne)) % nb) + 1],
            C[(((i-1) \div ne) % nc) + 1],
            E[((i-1) % ne) + 1]>>]

Loop3(A, B, C) ==
    LET nb == Len(B)  nc == Len(C)
    IN [i \in 1..(Len(A) * nb * nc) |->
          <<A[((i-1) \div (nb * nc)) + 1],
            B[(((i-1) \div nc) % nb) + 1],
            C[((i-1) % nc) + 1]>>]

\* x[n, r, sh, d] only if feasible
XKeys == SelectSeq(Loop4(nurse_ids, room_ids, shifts, days),
                   LAMBDA k : feasible(k[1], k[2]))

\* the coverage slots (d, rid, sh) in loop order
Slots == Loop3(days, room_ids, shifts)

\* ------------------------------------------------------------------ CpModel
XVar(k) == [kind |-> "x", key |-> k]
UVar(slot) == [kind |-> "under", key |-> slot]
OVar(slot) == [kind |-> "over", key |-> slot]
TotVar(n) == [kind |-> "tot", key |-> <<n>>]
DevVar(n) == [kind |-> "dev", key |-> <<n>>]

XSet == Range(x)
Ones(V) == {[v |-> v, c |-> 1] : v \in V}
Neg(V) == {[v |-> v, c |-> -1] : v \in V}
Lin(terms, op, rhs) == [terms |-> terms, op |-> op, rhs |-> rhs]

\* ------------------------------------------------------------------ constraints
\* Nurse: max shifts per day
vars_nd(n, d) == {XVar(k) : k \in {k \in XSet : k[1] = n /\ k[4] = d}}

DailyCapConstraints_weekcap ==
    {Lin(Ones(vars_nd(p[1], p[2])), "<=", max_per_week[p[1]]) :
        p \in {p \in Range(nurse_ids) \X Range(days) : vars_nd(p[1], p[2]) # {}}}

DailyCapConstraints ==
    {Lin(Ones(vars_nd(p[1], p[2])), "<=", max_per_day[p[1]]) :
        p \in {p \in Range(nurse_ids) \X Range(days) : vars_nd(p[1], p[2]) # {}}}

\* Nurse: max shifts per week
vars_n(n) == {XVar(k) : k \in {k \in XSet : k[1] = n}}

WeeklyCapConstraints_perday ==
    {Lin(Ones(vars_nd(p[1], p[2])), "<=", max_per_week[p[1]]) :
        p \in {p \in Range(nurse_ids) \X Range(days) : vars_nd(p[1], p[2]) # {}}}

WeeklyCapConstraints ==
    {Lin(Ones(vars_n(n)), "<=", max_per_week[n]) :
        n \in {n \in Range(nurse_ids) : vars_n(n) # {}}}

\* Coverage with slack
assigned(slot) ==
    {XVar(<<n, slot[2], slot[3], slot[1]>>) :
        n \in {n \in Range(nurse_ids) : <<n, slot[2], slot[3], slot[1]>> \in XSet}}

CoverageVars_narrow ==
    [v \in {UVar(s) : s \in Range(Slots)}
           \cup (IF inp.allow_overstaff THEN {OVar(s) : s \in Range(Slots)} ELSE {})
       |-> <<0, 10>>]

CoverageVars ==
    [v \in {UVar(s) : s \in Range(Slots)}
           \cup (IF inp.allow_overstaff THEN {OVar(s) : s \in Range(Slots)} ELSE {})
       |-> <<0, SlackMax>>]

CoverageConstraints_plusover ==
    {Lin(Ones(assigned(s)) \cup Ones({UVar(s)})
            \cup (IF inp.allow_overstaff THEN Ones({OVar(s)}) ELSE {}),
         "==", demand[s]) : s \in Range(Slots)}

CoverageConstraints ==
    {Lin(Ones(assigned(s)) \cup Ones({UVar(s)})
            \cup (IF inp.allow_overstaff THEN Neg({OVar(s)}) ELSE {}),
         "==", demand[s]) : s \in Range(Slots)}

\* Rest rule: no Night -> Day next day (per nurse)
night_vars(n, d) == {XVar(k) : k \in {k \in XSet : k[1] = n /\ k[3] = "Night" /\ k[4] = d}}
day_vars_next(n, d) == {XVar(k) : k \in {k \in XSet : k[1] = n /\ k[3] = "Day" /\ k[4] = d}}

RestConstraints_sameday ==
    IF inp.enforce_rest_night_to_day /\ "Night" \in Range(shifts) /\ "Day" \in Range(shifts)
    THEN {Lin(Ones(night_vars(p[1], days[p[2]])) \cup Ones(day_vars_next(p[1], days[p[2]])), "<=", 1) :
            p \in {p \in Range(nurse_ids) \X (1..(Len(days) - 1)) :
                     night_vars(p[1], days[p[2]]) # {} /\ day_vars_next(p[1], days[p[2]]) # {}}}
    ELSE {}

\* (a rest rule stated for each pair of a Night variable and a next-day Day variable)
RestConstraints_pairwise ==
    IF inp.enforce_rest_night_to_day /\ "Night" \in Range(shifts) /\ "Day" \in Range(shifts)
    THEN UNION {{Lin(Ones({q[1], q[2]}), "<=", 1) :
                    q \in night_vars(p[1], days[p[2]]) \X day_vars_next(p[1], days[p[2] + 1])} :
                p \in Range(nurse_ids) \X (1..(Len(days) - 1))}
    ELSE {}

RestConstraints ==
    IF inp.enforce_rest_night_to_day /\ "Night" \in Range(shifts) /\ "Day" \in Range(shifts)
    THEN {Lin(Ones(night_vars(p[1], days[p[2]])) \cup Ones(day_vars_next(p[1], days[p[2] + 1])), "<=", 1) :
            p \in {p \in Range(nurse_ids) \X (1..(Len(days) - 1)) :
                     night_vars(p[1], days[p[2]]) # {} /\ day_vars_next(p[1], days[p[2] + 1]) # {}}}
    ELSE {}

\* Charge nurse requirement per shift/day in the charge-tagged rooms
charge_nurses == {n \in Range(nurse_ids) : "Charge" \in qual_by_nurse[n]}
charge_room_ids == {rid \in Range(room_ids) : tag_by_room[rid] \in inp.charge_rooms_tags}
total_demand(d, sh) ==
    SumSet(charge_room_ids, [rid \in charge_room_ids |-> demand[<<d, rid, sh>>]])
charge_assigned(d, sh) ==
    {XVar(k) : k \in {k \in XSet : k[1] \in charge_nurses /\ k[2] \in charge_room_ids
                                      /\ k[3] = sh /\ k[4] = d}}

ChargeConstraints_anynurse ==
    IF charge_room_ids # {} /\ charge_nurses # {}
    THEN {Lin(Ones({XVar(k) : k \in {k \in XSet : k[2] \in charge_room_ids
                                        /\ k[3] = p[2] /\ k[4] = p[1]}}), ">=", 1) :
            p \in {p \in Range(days) \X Range(shifts) :
                     total_demand(p[1], p[2]) > 0 /\ charge_assigned(p[1], p[2]) # {}}}
    ELSE {}

ChargeConstraints ==
    IF charge_room_ids # {} /\ charge_nurses # {}
    THEN {Lin(Ones(charge_assigned(p[1], p[2])), ">=", 1) :
            p \in {p \in Range(days) \X Range(shifts) :
                     total_demand(p[1], p[2]) > 0 /\ charge_assigned(p[1], p[2]) # {}}}
    ELSE {}

\* Skill mix: a running OR room needs a CNOR nurse when one is feasible
or_room_ids == {rid \in Range(room_ids) : tag_by_room[rid] = "OR"}
cnor_vars(d, rid, sh) ==
    {XVar(<<n, rid, sh, d>>) :
        n \in {n \in Range(nurse_ids) : cert_by_nurse[n] = "CNOR" /\ <<n, rid, sh, d>> \in XSet}}

CnorConstraints_anynurse ==
    IF inp.require_cnor_in_or
    THEN {Lin(Ones(assigned(s)), ">=", 1) :
            s \in {s \in Range(Slots) : s[2] \in or_room_ids /\ demand[s] > 0
                                          /\ cnor_vars(s[1], s[2], s[3]) # {}}}
    ELSE {}

CnorConstraints ==
    IF inp.require_cnor_in_or
    THEN {Lin(Ones(cnor_vars(s[1], s[2], s[3])), ">=", 1) :
            s \in {s \in Range(Slots) : s[2] \in or_room_ids /\ demand[s] > 0
                                          /\ cnor_vars(s[1], s[2], s[3]) # {}}}
    ELSE {}

\* Locks: the items with locked = 1, as x keys (n, rid, sh, d), in dict order
LockedKeys ==
    LET on == SelectSeq(locks, LAMBDA it : it.locked = 1)
    IN [i \in DOMAIN on |-> <<on[i].key[4], on[i].key[3], on[i].key[2], on[i].key[1]>>]

MissingLocks == SelectSeq(LockedKeys, LAMBDA k : k \notin XSet)

LockConstraints == {Lin(Ones({XVar(k)}), "==", 1) : k \in Range(LockedKeys)}

\* Fairness: deviation from the weekly target, per nurse
FairnessVars ==
    IF inp.target = None THEN <<>>
    ELSE [v \in {TotVar(n) : n \in Range(nurse_ids)} \cup {DevVar(n) : n \in Range(nurse_ids)}
            |-> <<0, FairMax>>]

FairnessConstraints ==
    IF inp.target = None THEN {}
    ELSE UNION {{Lin(Ones({TotVar(n)}) \cup Neg(vars_n(n)), "==", 0),
                 Lin(Ones({DevVar(n)}) \cup Neg({TotVar(n)}), ">=", 0 - inp.target[1]),
                 Lin(Ones({DevVar(n)}) \cup Ones({TotVar(n)}), ">=", inp.target[1])} :
                n \in Range(nurse_ids)}

\* ------------------------------------------------------------------ objective
PrefOf(k) == IF <<k[1], k[4], k[3]>> \in DOMAIN pref THEN pref[<<k[1], k[4], k[3]>>] ELSE 0

\* Preferences reward
PrefTerms ==
    LET on == SelectSeq(x, LAMBDA k : PrefOf(k) # 0)
    IN [i \in DOMAIN on |-> [c |-> inp.weights.w_pref * PrefOf(on[i]), v |-> XVar(on[i])]]

\* Under/over staffing penalties
UnderTerms == [i \in DOMAIN Slots |-> [c |-> 0 - inp.weights.w_understaff, v |-> UVar(Slots[i])]]
OverTerms ==
    IF inp.allow_overstaff
    THEN [i \in DOMAIN Slots |-> [c |-> 0 - inp.weights.w_overstaff, v |-> OVar(Slots[i])]]
    ELSE <<>>

\* (a fairness penalty put on the weekly total instead of the deviation)
FairnessTerms_total ==
    IF inp.target = None THEN <<>>
    ELSE [i \in DOMAIN nurse_ids |-> [c |-> 0 - inp.weights.w_fairness, v |-> TotVar(nurse_ids[i])]]

\* Fairness penalties
FairnessTerms ==
    IF inp.target = None THEN <<>>
    ELSE [i \in DOMAIN nurse_ids |-> [c |-> 0 - inp.weights.w_fairness, v |-> DevVar(nurse_ids[i])]]

weekend_days == {d \in Range(days) : d \in {"Sat", "Sun"}}
\* (a weekend penalty that forgets the day filter)
WeekendTerms_alldays ==
    IF weekend_days # {} /\ inp.weights.w_weekend > 0
    THEN [i \in DOMAIN x |-> [c |-> 0 - inp.weights.w_weekend, v |-> XVar(x[i])]]
    ELSE <<>>

\* Weekend penalty (soft)
WeekendTerms ==
    IF weekend_days # {} /\ inp.weights.w_weekend > 0
    THEN LET on == SelectSeq(x, LAMBDA k : k[4] \in weekend_days)
         IN [i \in DOMAIN on |-> [c |-> 0 - inp.weights.w_weekend, v |-> XVar(on[i])]]
    ELSE <<>>

ObjectiveTerms == PrefTerms \o UnderTerms \o OverTerms \o FairnessTerms \o WeekendTerms

\* ------------------------------------------------------------------ backend
\* value of a linear expression under the (partial) assignment s
Eval(s, terms) == SumSet(terms, [t \in terms |-> t.c * s[t.v]])

Holds(s, c) ==
    LET v == Eval(s, c.terms)
    IN CASE c.op = "<=" -> v <= c.rhs
         [] c.op = ">=" -> v >= c.rhs
         [] c.op = "==" -> v = c.rhs

TermVars(c) == {t.v : t \in c.terms}

\* s satisfies the model: every variable in its domain, every constraint true
Satisfies(s) ==
    /\ \A v \in DOMAIN mvars : mvars[v][1] <= s[v] /\ s[v] <= mvars[v][2]
    /\ \A c \in cons : Holds(s, c)

ObjectiveValue(s) == SumSeq([i \in DOMAIN obj |-> obj[i].c * s[obj[i].v]])

VarsOfKind(kind) == {v \in DOMAIN mvars : v.kind = kind}

\* the value an equality constraint forces on v once its other variables are set
Forced(s, v) ==
    LET c == CHOOSE c \in cons : c.op = "==" /\ v \in TermVars(c)
                                   /\ (TermVars(c) \ {v}) \subseteq DOMAIN s
        t == CHOOSE t \in c.terms : t.v = v
    IN t.c * (c.rhs - Eval(s, c.terms \ {t}))

Force(s, V) == s @@ [v \in V |-> Forced(s, v)]

\* the integer values tried for a slack variable whose least admissible value is lo
IntSample(v, lo) ==
    {e \in (lo..(lo + SampleWidth)) \cup {mvars[v][2]} : mvars[v][1] <= e /\ e <= mvars[v][2]}

\* least overstaff value that leaves the understaff of the same slot within bounds
OverLow(s, o) ==
    LET c == CHOOSE c \in cons : o \in TermVars(c)
        g == c.rhs - Eval(s, {t \in c.terms : t.v.kind = "x"})
    IN Max({mvars[o][1], mvars[UVar(o.key)][1] - g})

\* least deviation value the >= constraints on it allow
DevLow(s, dv) ==
    Max({mvars[dv][1]} \cup
        {c.rhs - Eval(s, {t \in c.terms : t.v # dv}) :
            c \in {c \in cons : c.op = ">=" /\ dv \in TermVars(c)}})

\* the assignments of the variables of DOMAIN S that take each v in S[v]
Choices(S) ==
    {f \in [DOMAIN S -> UNION {S[v] : v \in DOMAIN S}] : \A v \in DOMAIN S : f[v] \in S[v]}

BoolCons == {c \in cons : \A t \in c.terms : t.v.kind = "x"}

XAssignments ==
    LET XV == VarsOfKind("x")
    IN {s \in {[v \in XV |-> IF v \in a THEN 1 ELSE 0] : a \in SUBSET XV} :
          \A c \in BoolCons : Holds(s, c)}

\* the complete assignments that extend the assignment s of the x variables
Extensions(s) ==
    LET s1 == Force(s, VarsOfKind("tot"))
        s2s == {s1 @@ f : f \in Choices([o \in VarsOfKind("over") |-> IntSample(o, OverLow(s1, o))])}
        s3s == {Force(s2, VarsOfKind("under")) : s2 \in s2s}
    IN UNION {{s3 @@ f : f \in Choices([dv \in VarsOfKind("dev") |-> IntSample(dv, DevLow(s3, dv))])} :
                s3 \in s3s}

\* the satisfying assignments the search can return
Solutions == {s \in UNION {Extensions(a) : a \in XAssignments} : Satisfies(s)}

OptimalSolutions ==
    LET S == Solutions
        best == Max({ObjectiveValue(s) : s \in S})
    IN {s \in S : ObjectiveValue(s) = best}

\* ------------------------------------------------------------------ result
Solved == status \in {"OPTIMAL", "FEASIBLE"}

\* the record of slot s; Value[v] is solver.Value on the x variable v
OutRow(s, Value) ==
        [day |-> s[1],
         room_id |-> s[2],
         room_name |-> inp.rooms[Min({i \in DOMAIN inp.rooms : inp.rooms[i].room_id = s[2]})].room_name,
         shift |-> s[3],
         required_nurses |-> demand[s],
         assigned_nurses |-> SelectSeq(nurse_ids, LAMBDA n :
                                 /\ <<n, s[2], s[3], s[1]>> \in XSet
                                 /\ Value[XVar(<<n, s[2], s[3], s[1]>>)] = 1),
         understaff |-> IF Solved THEN Some(sol[UVar(s)]) ELSE None,
         overstaff |-> IF inp.allow_overstaff /\ Solved THEN Some(sol[OVar(s)]) ELSE None]

\* one record per (day, room, shift), in loop order
OutRows(Value) == [i \in DOMAIN Slots |-> OutRow(Slots[i], Value)]

\* ------------------------------------------------------------------ actions
\* lines 55-100: copies, lookups and the sparse variable space
BuildVariables ==
    /\ pc = "vars"
    /\ demand' = DemandDict
    /\ pref' = pref_lookup(inp.prefs)
    /\ locks' = locks_lookup(inp.lock_rows)
    /\ x' = XKeys
    /\ mvars' = [v \in {XVar(k) : k \in Range(XKeys)} |-> <<0, 1>>]
    /\ pc' = "daily"
    /\ UNCHANGED <<inp, cons, obj, status, sol, meta, out, err>>

AddDailyCaps ==
    /\ pc = "daily"
    /\ cons' = cons \cup DailyCapConstraints
    /\ pc' = "weekly"
    /\ UNCHANGED <<inp, demand, pref, locks, x, mvars, obj, status, sol, meta, out, err>>

AddWeeklyCaps ==
    /\ pc = "weekly"
    /\ cons' = cons \cup WeeklyCapConstraints
    /\ pc' = "coverage"
    /\ UNCHANGED <<inp, demand, pref, locks, x, mvars, obj, status, sol, meta, out, err>>

AddCoverage ==
    /\ pc = "coverage"
    /\ mvars' = mvars @@ CoverageVars
    /\ cons' = cons \cup CoverageConstraints
    /\ pc' = "rest"
    /\ UNCHANGED <<inp, demand, pref, locks, x, obj, status, sol, meta, out, err>>

AddRestRule ==
    /\ pc = "rest"
    /\ cons' = cons \cup RestConstraints
    /\ pc' = "charge"
    /\ UNCHANGED <<inp, demand, pref, locks, x, mvars, obj, status, sol, meta, out, err>>

AddChargeRule ==
    /\ pc = "charge"
    /\ cons' = cons \cup ChargeConstraints
    /\ pc' = "cnor"
    /\ UNCHANGED <<inp, demand, pref, locks, x, mvars, obj, status, sol, meta, out, err>>

AddSkillMix ==
    /\ pc = "cnor"
    /\ cons' = cons \cup CnorConstraints
    /\ pc' = "locks"
    /\ UNCHANGED <<inp, demand, pref, locks, x, mvars, obj, status, sol, meta, out, err>>

\* the first locked item without a variable raises RuntimeError
RaiseLockError ==
    /\ pc = "locks"
    /\ MissingLocks # <<>>
    /\ err' = [type |-> "RuntimeError", key |-> Head(MissingLocks)]
    /\ pc' = "raised"
    /\ UNCHANGED <<inp, demand, pref, locks, x, mvars, cons, obj, status, sol, meta, out>>

AddLocks ==
    /\ pc = "locks"
    /\ MissingLocks = <<>>
    /\ cons' = cons \cup LockConstraints
    /\ pc' = "fairness"
    /\ UNCHANGED <<inp, demand, pref, locks, x, mvars, obj, status, sol, meta, out, err>>

AddFairness ==
    /\ pc = "fairness"
    /\ mvars' = mvars @@ FairnessVars
    /\ cons' = cons \cup FairnessConstraints
    /\ pc' = "objective"
    /\ UNCHANGED <<inp, demand, pref, locks, x, obj, status, sol, meta, out, err>>

BuildObjective ==
    /\ pc = "objective"
    /\ obj' = ObjectiveTerms
    /\ pc' = "solve"
    /\ UNCHANGED <<inp, demand, pref, locks, x, mvars, cons, status, sol, meta, out, err>>

\* solver.Solve(model): the search ends with a proved optimum, ...
SolveOptimal ==
    /\ pc = "solve"
    /\ \E s \in OptimalSolutions : sol' = s
    /\ status' = "OPTIMAL"
    /\ pc' = "meta"
    /\ UNCHANGED <<inp, demand, pref, locks, x, mvars, cons, obj, meta, out, err>>

\* ... or the time limit ends it with some solution in hand, ...
SolveFeasible ==
    /\ pc = "solve"
    /\ \E s \in Solutions : sol' = s
    /\ status' = "FEASIBLE"
    /\ pc' = "meta"
    /\ UNCHANGED <<inp, demand, pref, locks, x, mvars, cons, obj, meta, out, err>>

\* ... or it proves there is none, ...
SolveInfeasible ==
    /\ pc = "solve"
    /\ Solutions = {}
    /\ status' = "INFEASIBLE"
    /\ pc' = "meta"
    /\ UNCHANGED <<inp, demand, pref, locks, x, mvars, cons, obj, sol, meta, out, err>>

\* ... or the time limit ends it with nothing found
SolveUnknown ==
    /\ pc = "solve"
    /\ status' = "UNKNOWN"
    /\ pc' = "meta"
    /\ UNCHANGED <<inp, demand, pref, locks, x, mvars, cons, obj, sol, meta, out, err>>

\* lines 242-245
BuildMeta ==
    /\ pc = "meta"
    /\ meta' = [status |-> status,
                objective |-> IF Solved THEN Some(ObjectiveValue(sol)) ELSE None]
    /\ pc' = "output"
    /\ UNCHANGED <<inp, demand, pref, locks, x, mvars, cons, obj, status, sol, out, err>>

\* lines 247-269 with a solution in hand
Materialize ==
    /\ pc = "output"
    /\ Solved
    /\ out' = OutRows(sol)
    /\ pc' = "done"
    /\ UNCHANGED <<inp, demand, pref, locks, x, mvars, cons, obj, status, sol, meta, err>>

\* lines 247-269 without one: solver.Value(x[key]) reads a response that has no
\* solution. With no x variable nothing is read; otherwise the read either
\* raises or yields a value the source does not determine.
MaterializeEmpty ==
    /\ pc = "output"
    /\ ~Solved
    /\ XSet = {}
    /\ out' = OutRows([v \in VarsOfKind("x") |-> 0])
    /\ pc' = "done"
    /\ UNCHANGED <<inp, demand, pref, locks, x, mvars, cons, obj, status, sol, meta, err>>

MaterializeRaises ==
    /\ pc = "output"
    /\ ~Solved
    /\ XSet # {}
    /\ err' = [type |-> "SolverValue", key |-> <<>>]
    /\ pc' = "raised"
    /\ UNCHANGED <<inp, demand, pref, locks, x, mvars, cons, obj, status, sol, meta, out>>

MaterializeUndetermined ==
    /\ pc = "output"
    /\ ~Solved
    /\ XSet # {}
    /\ \E g \in {0, 1} : out' = OutRows([v \in VarsOfKind("x") |-> g])
    /\ pc' = "done"
    /\ UNCHANGED <<inp, demand, pref, locks, x, mvars, cons, obj, status, sol, meta, err>>

Next ==
    \/ BuildVariables
    \/ AddDailyCaps
    \/ AddWeeklyCaps
    \/ AddCoverage
    \/ AddRestRule
    \/ AddChargeRule
    \/ AddSkillMix
    \/ RaiseLockError
    \/ AddLocks
    \/ AddFairness
    \/ BuildObjective
    \/ SolveOptimal
    \/ SolveFeasible
    \/ SolveInfeasible
    \/ SolveUnknown
    \/ BuildMeta
    \/ Materialize
    \/ MaterializeEmpty
    \/ MaterializeRaises
    \/ MaterializeUndetermined

\* ------------------------------------------------------------------ inputs
Nurse(id, quals, cert, mpd, mpw) ==
    [nurse_id |-> id, qualifications |-> quals, certification |-> cert,
     max_shifts_per_day |-> mpd, max_shifts_per_week |-> mpw]
Room(id, req, tag) ==
    [room_id |-> id, room_name |-> id, required_qualifications |-> req, tags |-> tag]
DemandRow(d, rid, sh, k) == [day |-> d, room_id |-> rid, shift |-> sh, required_nurses |-> k]
PrefRow(n, d, sh, p) == [nurse_id |-> n, day |-> d, shift |-> sh, preference |-> p]
LockRow(d, sh, rid, n, l) == [day |-> d, shift |-> sh, room_id |-> rid, nurse_id |-> n, locked |-> l]

\* the Weights dataclass defaults (lines 11-15)
DefaultWeights ==
    [w_pref |-> 5, w_understaff |-> 200, w_overstaff |-> 5, w_fairness |-> 3, w_weekend |-> 2]

\* a demand table with one row of k nurses for every slot of the horizon
DemandAll(ds, rs, ss, k) ==
    LET slots == Loop3(ds, rs, ss)
    IN [i \in DOMAIN slots |-> DemandRow(slots[i][1], slots[i][2], slots[i][3], k)]

\* one ICU room and one OR room, an ICU charge nurse and a CNOR nurse, Monday day shift
Base ==
    [nurses |-> <<Nurse("N1", <<"ICU", "Charge">>, "", 1, 1), Nurse("N2", <<>>, "CNOR", 1, 1)>>,
     rooms |-> <<Room("R1", <<"ICU">>, "ICU"), Room("R2", <<>>, "OR")>>,
     demand |-> DemandAll(<<"Mon">>, <<"R1", "R2">>, <<"Day">>, 1),
     prefs |-> <<>>,
     lock_rows |-> <<>>,
     days |-> <<"Mon">>,
     shifts |-> <<"Day">>,
     allow_overstaff |-> FALSE,
     weights |-> DefaultWeights,
     target |-> None,
     enforce_rest_night_to_day |-> TRUE,
     charge_rooms_tags |-> {"ICU", "ER"},
     require_cnor_in_or |-> TRUE]

\* calls that reach the error and no-solution paths of the function
CommonInputs ==
    {Base,
     \* a lock on a nurse who lacks the room's qualification
     [Base EXCEPT !.lock_rows = <<LockRow("Mon", "Day", "R1", "N2", 1)>>],
     \* the only charge nurse may work no shift
     [Base EXCEPT !.nurses = <<Nurse("N1", <<"ICU", "Charge">>, "", 0, 0)>>],
     \* no nurse is feasible for the only room
     [Base EXCEPT !.nurses = <<Nurse("N1", <<"ICU">>, "", 1, 1)>>,
                  !.rooms = <<Room("R1", <<"ICU", "CNOR">>, "ICU")>>,
                  !.demand = DemandAll(<<"Mon">>, <<"R1">>, <<"Day">>, 1)]}

InitWith(I) ==
    /\ inp \in I
    /\ pc = "vars"
    /\ demand = <<>>
    /\ pref = <<>>
    /\ locks = <<>>
    /\ x = <<>>
    /\ mvars = <<>>
    /\ cons = {}
    /\ obj = <<>>
    /\ status = "none"
    /\ sol = None
    /\ meta = None
    /\ out = None
    /\ err = None

Inputs ==
    CommonInputs \cup
    {[Base EXCEPT !.demand = DemandAll(Base.days, <<"R1", "R2">>, Base.shifts, k), !.allow_overstaff = o] :
        k \in 0..MaxDemand, o \in BOOLEAN}

Init == InitWith(Inputs)

Spec == Init /\ [][Next]_vars

\* ------------------------------------------------------------------ variable space
\* qualification fields as typed in the tables, split on ";"
QualFields == {<<>>, <<"ICU">>, <<" ICU", "", "Charge ">>, <<"Charge", "Charge">>}
ReqFields == {<<>>, <<" ">>, <<"ICU">>, <<"ICU", "Charge">>}
Horizons == {<<<<"Mon">>, <<"Day">>>>, <<<<"Mon", "Tue">>, <<"Day">>>>, <<<<"Mon">>, <<"Day", "Night">>>>}

InputsVars ==
    CommonInputs \cup
    {[Base EXCEPT !.nurses = <<Nurse("N1", q[1], "", 1, 1), Nurse("N2", q[2], "CNOR", 1, 1)>>,
                  !.rooms = <<Room("R1", r[1], "ICU"), Room("R2", r[2], "OR")>>,
                  !.days = h[1],
                  !.shifts = h[2],
                  !.demand = DemandAll(<<"Mon">>, <<"R1", "R2">>, <<"Day">>, 1)] :
        q \in QualFields \X QualFields, r \in ReqFields \X ReqFields, h \in Horizons}

InitVars == InitWith(InputsVars)
SpecVars == InitVars /\ [][Next]_vars

\* the set a split field denotes, token by token
TokenSet(field) == {t \in {"ICU", "Charge", "CNOR", "ER"} :
                       \E i \in DOMAIN field : field[i] \in {t, " " \o t, t \o " "}}
NurseIdSet == {inp.nurses[i].nurse_id : i \in DOMAIN inp.nurses}
RoomIdSet == {inp.rooms[i].room_id : i \in DOMAIN inp.rooms}
\* nurse n holds every qualification room rid requires
Qualified(n, rid) ==
    \A i \in DOMAIN inp.nurses, j \in DOMAIN inp.rooms :
        (inp.nurses[i].nurse_id = n /\ inp.rooms[j].room_id = rid)
            => TokenSet(inp.rooms[j].required_qualifications)
                   \subseteq TokenSet(inp.nurses[i].qualifications)
FeasibleCount(rid) == Cardinality({n \in NurseIdSet : Qualified(n, rid)})

\* C1: once the variable space is built, x[n,r,s,d] exists iff n is an input
\* nurse, r an input room, s a selected shift, d a selected day and r's required
\* qualifications are a subset of n's; the number of variables is
\* |days| x |shifts| x the sum over rooms of the nurses feasible for the room.
C1_VariableSpace ==
    pc # "vars" =>
        /\ XSet = {k \in NurseIdSet \X RoomIdSet \X Range(inp.shifts) \X Range(inp.days) :
                     Qualified(k[1], k[2])}
        /\ {v \in DOMAIN mvars : v.kind = "x"} = {XVar(k) : k \in XSet}
        /\ Len(x) = Len(inp.days) * Len(inp.shifts)
                      * SumSet(RoomIdSet, [rid \in RoomIdSet |-> FeasibleCount(rid)])
        /\ \A rid \in RoomIdSet :
              TokenSet(RoomRow(rid).required_qualifications) = {}
                  => \A n \in NurseIdSet, sh \in Range(inp.shifts), d \in Range(inp.days) :
                        <<n, rid, sh, d>> \in XSet

\* a restrictive room and an unrestricted one: fewer variables than the cross product
C1_Witness ==
    /\ pc = "done"
    /\ \E n \in NurseIdSet, rid \in RoomIdSet : ~Qualified(n, rid)
    /\ \E rid \in RoomIdSet : TokenSet(RoomRow(rid).required_qualifications) = {}
    /\ Len(inp.days) * Len(inp.shifts) > 1
    /\ 0 < Len(x)
    /\ Len(x) < Len(inp.nurses) * Len(inp.rooms) * Len(inp.shifts) * Len(inp.days)

\* ------------------------------------------------------------------ coverage
Missing == 0 - 1
\* a demand table from f: room -> required nurses (Missing: no row), Monday day shift
DemandOf(f, rs) ==
    LET have == SelectSeq(rs, LAMBDA rid : f[rid] # Missing)
    IN [i \in DOMAIN have |-> DemandRow("Mon", have[i], "Day", f[have[i]])]
\* rows a later row of the same slot overrides, and a row outside the horizon
StaleRows == <<DemandRow("Mon", "R1", "Day", MaxDemand), DemandRow("Sun", "R1", "Day", 1)>>

InputsCover ==
    CommonInputs \cup
    {[Base EXCEPT !.nurses = <<Nurse("N1", <<"ICU", "Charge">>, "", c, 2), Nurse("N2", <<>>, "CNOR", 1, 2)>>,
                  !.demand = (IF o[2] THEN StaleRows ELSE <<>>) \o DemandOf(f, <<"R1", "R2">>),
                  !.allow_overstaff = o[1],
                  !.days = IF o[1] THEN <<"Mon">> ELSE <<"Mon", "Tue">>,
                  !.charge_rooms_tags = IF o[3] THEN {"ICU", "ER"} ELSE {},
                  !.require_cnor_in_or = o[3]] :
        c \in 0..MaxCap,
        f \in [{"R1", "R2"} -> {Missing} \cup (0..MaxDemand)],
        o \in BOOLEAN \X BOOLEAN \X BOOLEAN}

InitCover == InitWith(InputsCover)
SpecCover == InitCover /\ [][Next]_vars

\* the demand of a slot as the table gives it: its last row, 0 without one
InputDemand(d, rid, sh) ==
    LET idx == {i \in DOMAIN inp.demand :
                  /\ inp.demand[i].day = d
                  /\ inp.demand[i].room_id = rid
                  /\ inp.demand[i].shift = sh}
    IN IF idx = {} THEN 0
       ELSE inp.demand[CHOOSE i \in idx : \A j \in idx : j <= i].required_nurses

HasDemandRow(d, rid, sh) ==
    \E i \in DOMAIN inp.demand :
        inp.demand[i].day = d /\ inp.demand[i].room_id = rid /\ inp.demand[i].shift = sh

\* the nurses the solution assigns to a slot
AssignedTo(d, rid, sh) ==
    {n \in NurseIdSet : <<n, rid, sh, d>> \in XSet /\ sol[XVar(<<n, rid, sh, d>>)] = 1}

HorizonSlots == Range(inp.days) \X RoomIdSet \X Range(inp.shifts)

\* C2: in every accepted solution, for every (day, room, shift) of the horizon,
\* rows defaulted to 0 included: assigned + understaff - overstaff = demand
\* (no overstaff term when overstaffing is off), with the slack values
\* non-negative, so that assigned <= demand when overstaffing is off.
C2_CoverageBalance ==
    Solved =>
        \A k \in HorizonSlots :
            LET a == Cardinality(AssignedTo(k[1], k[2], k[3]))
                u == sol[UVar(k)]
                o == IF inp.allow_overstaff THEN sol[OVar(k)] ELSE 0
            IN /\ a + u - o = InputDemand(k[1], k[2], k[3])
               /\ u >= 0
               /\ o >= 0
               /\ (~inp.allow_overstaff) => a <= InputDemand(k[1], k[2], k[3])
               /\ (~inp.allow_overstaff) => OVar(k) \notin DOMAIN sol

\* a solution that understaffs one slot and overstaffs a slot without a demand row
C2_Witness ==
    /\ pc = "done"
    /\ Solved
    /\ inp.allow_overstaff
    /\ \E k \in HorizonSlots : sol[UVar(k)] > 0
    /\ \E k \in HorizonSlots :
          /\ ~HasDemandRow(k[1], k[2], k[3])
          /\ sol[OVar(k)] > 0
          /\ AssignedTo(k[1], k[2], k[3]) # {}

\* ------------------------------------------------------------------ locks
MaxLockRows == 2

\* lock rows: pins that have a variable, a pin on an unqualified nurse, pins on
\* identifiers that resolve to nothing, and rows with locked = 0
LockRowPool ==
    {LockRow("Mon", "Day", "R1", "N1", 1), LockRow("Mon", "Day", "R1", "N1", 0),
     LockRow("Mon", "Day", "R2", "N1", 1), LockRow("Mon", "Day", "R2", "N2", 1),
     LockRow("Mon", "Day", "R1", "N2", 1), LockRow("Mon", "Day", "R1", "N2", 0),
     LockRow("Mon", "Day", "R1", "N9", 1), LockRow("Mon", "Day", "R9", "N1", 1),
     LockRow("Tue", "Day", "R1", "N1", 1), LockRow("Mon", "Night", "R1", "N1", 1)}

LockTables == UNION {[1..n -> LockRowPool] : n \in 0..MaxLockRows}

InputsLocks ==
    CommonInputs \cup
    {[Base EXCEPT !.nurses = <<Nurse("N1", <<"ICU", "Charge">>, "", c, 2), Nurse("N2", <<>>, "CNOR", 1, 2)>>,
                  !.lock_rows = t,
                  !.charge_rooms_tags = IF hard THEN {"ICU", "ER"} ELSE {},
                  !.require_cnor_in_or = hard] :
        c \in 0..MaxCap, t \in LockTables, hard \in BOOLEAN}

InitLocks == InitWith(InputsLocks)
SpecLocks == InitLocks /\ [][Next]_vars

\* an assignment variable exists for the lock row's tuple
RowHasVariable(r) ==
    /\ r.nurse_id \in NurseIdSet
    /\ r.room_id \in RoomIdSet
    /\ r.shift \in Range(inp.shifts)
    /\ r.day \in Range(inp.days)
    /\ Qualified(r.nurse_id, r.room_id)

\* the schedule lists the row's nurse in the record of the row's (day, room, shift)
RowHonoured(r) ==
    \E i \in DOMAIN out :
        /\ out[i].day = r.day
        /\ out[i].room_id = r.room_id
        /\ out[i].shift = r.shift
        /\ r.nurse_id \in Range(out[i].assigned_nurses)

AfterLocks == {"fairness", "objective", "solve", "meta", "output", "done"}

\* the call failed on a lock before the backend was invoked
LockFatal ==
    /\ pc \notin AfterLocks
    /\ status = "none"
    /\ out = None
    /\ pc = "raised" => (err.type = "RuntimeError"
                           /\ \E i \in DOMAIN inp.lock_rows :
                                 /\ inp.lock_rows[i].locked = 1
                                 /\ ~RowHasVariable(inp.lock_rows[i])
                                 /\ err.key = <<inp.lock_rows[i].nurse_id, inp.lock_rows[i].room_id,
                                                inp.lock_rows[i].shift, inp.lock_rows[i].day>>)

LastOfKey(i) ==
    \A j \in DOMAIN inp.lock_rows :
        (/\ inp.lock_rows[j].day = inp.lock_rows[i].day
         /\ inp.lock_rows[j].shift = inp.lock_rows[i].shift
         /\ inp.lock_rows[j].room_id = inp.lock_rows[i].room_id
         /\ inp.lock_rows[j].nurse_id = inp.lock_rows[i].nurse_id) => j <= i

EffectiveLock(i) == LastOfKey(i) /\ inp.lock_rows[i].locked = 1

SlackDemands == {0, 1, SlackMax, SlackMax + 1, SlackMax + 2}
SlackTargets == {<<FALSE, None>>, <<TRUE, None>>, <<FALSE, Some(1)>>,
                 <<FALSE, Some(FairMax)>>, <<FALSE, Some(FairMax + 1)>>}

InputsSlack ==
    CommonInputs \cup
    {[Base EXCEPT !.nurses = <<Nurse("N1", <<"ICU", "Charge">>, "", c, c), Nurse("N2", <<>>, "CNOR", 1, 1)>>,
                  !.rooms = <<Room("R1", r, "ICU"), Room("R2", <<>>, "OR")>>,
                  !.demand = <<DemandRow("Mon", "R1", "Day", k), DemandRow("Mon", "R2", "Day", 1)>>,
                  !.allow_overstaff = ot[1],
                  !.target = ot[2],
                  !.charge_rooms_tags = IF hard[1] THEN {"ICU", "ER"} ELSE {},
                  !.require_cnor_in_or = hard[2]] :
        c \in {0, MaxCap}, r \in {<<"ICU">>, <<"ICU", "CNOR">>}, k \in SlackDemands,
        ot \in SlackTargets, hard \in BOOLEAN \X BOOLEAN}

InitSlack == InitWith(InputsSlack)
SpecSlack == InitSlack /\ [][Next]_vars

NoLockedRow == \A i \in DOMAIN inp.lock_rows : inp.lock_rows[i].locked # 1

\* C4 as stated: without a locked row the assembled model always has a
\* satisfying assignment: the solve never reports INFEASIBLE, whatever the
\* demand, the caps, the flags and the fairness target.
C4_AlwaysSatisfiable ==
    NoLockedRow =>
        /\ pc = "solve" => Solutions # {}
        /\ status # "INFEASIBLE"

\* the inputs whose shortfall the slack can absorb: no hard role coverage, every
\* horizon demand within the understaff bound, the target within the deviation bound
Absorbable ==
    /\ inp.charge_rooms_tags = {}
    /\ ~inp.require_cnor_in_or
    /\ \A k \in HorizonSlots :
          0 <= InputDemand(k[1], k[2], k[3]) /\ InputDemand(k[1], k[2], k[3]) <= 100
    /\ \A i \in DOMAIN inp.nurses :
          inp.nurses[i].max_shifts_per_day >= 0 /\ inp.nurses[i].max_shifts_per_week >= 0
    /\ inp.target # None => (0 <= inp.target[1] /\ inp.target[1] <= 1000)

\* C4 (amended): without a locked row, with charge and special-role coverage
\* off, every demand in 0..100, caps >= 0 and the fairness target (if any) in
\* 0..1000, the assembled model has a satisfying assignment (nobody assigned,
\* understaff = demand): the solve never reports INFEASIBLE and no lock error
\* is raised.
C4_AbsorbedBySlack ==
    (NoLockedRow /\ Absorbable) =>
        /\ pc = "solve" =>
              \E s \in Solutions :
                  /\ \A v \in VarsOfKind("x") : s[v] = 0
                  /\ \A k \in HorizonSlots : s[UVar(k)] = InputDemand(k[1], k[2], k[3])
        /\ status # "INFEASIBLE"
        /\ err = None \/ err.type # "RuntimeError"

\* a room no nurse is feasible for, with demand: solved, the demand understaffed
C4_Witness ==
    /\ NoLockedRow /\ Absorbable
    /\ pc = "done"
    /\ status = "OPTIMAL"
    /\ \E k \in HorizonSlots :
          /\ FeasibleCount(k[2]) = 0
          /\ InputDemand(k[1], k[2], k[3]) = 100
          /\ sol[UVar(k)] = 100
          /\ \E i \in DOMAIN out : out[i].room_id = k[2] /\ out[i].understaff = Some(100)

\* ------------------------------------------------------------------ caps and rest
DaySeqs == {<<"Mon", "Tue">>, <<"Mon", "Wed">>, <<"Tue", "Mon">>, <<"Mon", "Tue", "Wed">>}
ShiftSeqs == {<<"Day", "Night">>, <<"Night", "Day">>, <<"Day", "Evening">>}
RoomSeqs == {<<Room("R1", <<>>, "")>>, <<Room("R1", <<>>, ""), Room("R2", <<>>, "")>>}

\* one nurse, every slot asking for one nurse: the caps and the rest rule decide
InputsCaps ==
    CommonInputs \cup
    {[Base EXCEPT !.nurses = <<Nurse("N1", <<>>, "", c[1], c[2])>>,
                  !.rooms = h[1],
                  !.days = h[2],
                  !.shifts = ss,
                  !.demand = DemandAll(h[2], <<"R1", "R2">>, ss, 1),
                  !.enforce_rest_night_to_day = rest] :
        c \in (0..MaxCap) \X (0..MaxCap),
        h \in {h \in RoomSeqs \X DaySeqs : Len(h[2]) = 2 \/ Len(h[1]) = 1},
        ss \in ShiftSeqs, rest \in BOOLEAN}

InitCaps == InitWith(InputsCaps)
SpecCaps == InitCaps /\ [][Next]_vars

\* the (room, shift) pairs nurse n works on day d in the solution
WorkOn(n, d) ==
    {p \in RoomIdSet \X Range(inp.shifts) :
        <<n, p[1], p[2], d>> \in XSet /\ sol[XVar(<<n, p[1], p[2], d>>)] = 1}

\* nurse n works shift sh on day d in some room
Works(n, sh, d) == \E rid \in RoomIdSet : <<rid, sh>> \in WorkOn(n, d)

CapDay(n) == inp.nurses[CHOOSE i \in DOMAIN inp.nurses : inp.nurses[i].nurse_id = n].max_shifts_per_day
CapWeek(n) == inp.nurses[CHOOSE i \in DOMAIN inp.nurses : inp.nurses[i].nurse_id = n].max_shifts_per_week

RestActive ==
    /\ inp.enforce_rest_night_to_day
    /\ \E i \in DOMAIN inp.shifts : inp.shifts[i] = "Night"
    /\ \E i \in DOMAIN inp.shifts : inp.shifts[i] = "Day"

\* C5: with the rest rule on and both Night and Day selected, no accepted
\* solution gives a nurse a Night on the day at position i of the selected
\* days and a Day on the day at position i+1, in whatever rooms.
C5_RestRule ==
    (Solved /\ RestActive) =>
        \A n \in NurseIdSet : \A i \in 1..(Len(inp.days) - 1) :
            ~(Works(n, "Night", inp.days[i]) /\ Works(n, "Day", inp.days[i + 1]))

\* a Night on Monday kept although the next selected day, Wednesday, is not the
\* next calendar day; Monday's own Day shift is worked too
C5_Witness ==
    /\ pc = "done" /\ Solved /\ RestActive
    /\ inp.days = <<"Mon", "Wed">>
    /\ Works("N1", "Night", "Mon")
    /\ Works("N1", "Day", "Mon")
    /\ ~Works("N1", "Day", "Wed")

\* C8: in every accepted solution a nurse has at most max_shifts_per_day
\* (room, shift) assignments on any selected day.
C8_DailyCap ==
    Solved =>
        \A n \in NurseIdSet : \A d \in Range(inp.days) :
            Cardinality(WorkOn(n, d)) <= CapDay(n)

\* the daily cap binds: one assignment on each of two days under a daily cap of
\* 1 and a weekly cap of 2
C8_Witness ==
    /\ pc = "done" /\ Solved
    /\ CapDay("N1") = 1 /\ CapWeek("N1") = 2
    /\ \A d \in Range(inp.days) : Cardinality(WorkOn("N1", d)) = 1

\* C9: in every accepted solution a nurse's assignments over all selected days,
\* rooms and shifts number at most max_shifts_per_week.
C9_WeeklyCap ==
    Solved =>
        \A n \in NurseIdSet :
            SumSet(Range(inp.days), [d \in Range(inp.days) |-> Cardinality(WorkOn(n, d))])
                <= CapWeek(n)

\* the weekly cap binds: one assignment in the week under a daily cap of 2
C9_Witness ==
    /\ pc = "done" /\ Solved
    /\ CapDay("N1") = 2 /\ CapWeek("N1") = 1
    /\ SumSet(Range(inp.days), [d \in Range(inp.days) |-> Cardinality(WorkOn("N1", d))]) = 1

\* ------------------------------------------------------------------ role coverage
InputsRoles ==
    CommonInputs \cup
    {[Base EXCEPT !.nurses = <<Nurse("N1", q, cert, 1, 1), Nurse("N2", <<"ICU">>, "", 1, 1)>>,
                  !.rooms = <<Room("R1", <<"ICU">>, tg[1]), Room("R2", <<>>, tg[2])>>,
                  !.demand = <<DemandRow("Mon", "R1", "Day", k[1]), DemandRow("Mon", "R2", "Day", k[2])>>,
                  !.allow_overstaff = fl[1],
                  !.charge_rooms_tags = IF fl[2] THEN {"ICU", "ER"} ELSE {},
                  !.require_cnor_in_or = fl[3]] :
        q \in {<<"ICU", "Charge">>, <<"Charge">>, <<"ICU">>}, cert \in {"", "CNOR"},
        tg \in {"ICU", "OR"} \X {"ER", "OR"}, k \in (0..MaxDemand) \X {0, 1},
        fl \in BOOLEAN \X BOOLEAN \X BOOLEAN}

InitRoles == InitWith(InputsRoles)
SpecRoles == InitRoles /\ [][Next]_vars

\* rooms whose tag is a charge-required category; nurses holding "Charge"
ChargeRoomSet ==
    {inp.rooms[i].room_id : i \in {i \in DOMAIN inp.rooms : inp.rooms[i].tags \in inp.charge_rooms_tags}}
ChargeNurseSet ==
    {inp.nurses[i].nurse_id :
        i \in {i \in DOMAIN inp.nurses : "Charge" \in TokenSet(inp.nurses[i].qualifications)}}
ChargeDemand(d, sh) ==
    SumSet(ChargeRoomSet, [rid \in ChargeRoomSet |-> InputDemand(d, rid, sh)])
ChargeEligible == \E n \in ChargeNurseSet, rid \in ChargeRoomSet : Qualified(n, rid)
\* the (day, shift) pairs that must see a charge nurse
ChargeNeeded ==
    {p \in Range(inp.days) \X Range(inp.shifts) : ChargeDemand(p[1], p[2]) > 0 /\ ChargeEligible}

\* the variables of Charge nurses in charge rooms, one set per needed (day, shift)
ChargeExpected ==
    IF inp.charge_rooms_tags = {} THEN {}
    ELSE {{XVar(<<n, rid, p[2], p[1]>>) :
              <<n, rid>> \in {q \in ChargeNurseSet \X ChargeRoomSet : Qualified(q[1], q[2])}} :
          p \in ChargeNeeded}

\* C6: with charge coverage on, wherever the demand summed over the charge rooms
\* is > 0 and a Charge nurse is eligible for one of those rooms, every accepted
\* solution assigns a Charge nurse to one of those rooms at that (day, shift);
\* the model holds one such constraint per such (day, shift) and none otherwise.
C6_ChargeCoverage ==
    /\ pc = "cnor" => {TermVars(c) : c \in {c \in cons : c.op = ">=" /\ c.rhs = 1}} = ChargeExpected
    /\ Solved =>
          \A p \in ChargeNeeded :
              \E n \in ChargeNurseSet, rid \in ChargeRoomSet : n \in AssignedTo(p[1], rid, p[2])

\* the demand sits in one charge room and the charge nurse covers it from the
\* other, while a nurse without "Charge" staffs the demanded room
C6_Witness ==
    /\ pc = "done" /\ Solved
    /\ ChargeRoomSet = {"R1", "R2"}
    /\ InputDemand("Mon", "R1", "Day") = 0
    /\ InputDemand("Mon", "R2", "Day") = 1
    /\ AssignedTo("Mon", "R1", "Day") = {"N1"}
    /\ AssignedTo("Mon", "R2", "Day") = {"N2"}
    /\ ChargeNurseSet = {"N1"}

\* rooms tagged "OR"; nurses certified CNOR
OrRoomSet == {inp.rooms[i].room_id : i \in {i \in DOMAIN inp.rooms : inp.rooms[i].tags = "OR"}}
CnorNurseSet ==
    {inp.nurses[i].nurse_id : i \in {i \in DOMAIN inp.nurses : inp.nurses[i].certification = "CNOR"}}
\* the slots that must see a CNOR nurse
CnorNeeded ==
    IF inp.require_cnor_in_or
    THEN {k \in HorizonSlots : /\ k[2] \in OrRoomSet
                               /\ InputDemand(k[1], k[2], k[3]) > 0
                               /\ \E n \in CnorNurseSet : Qualified(n, k[2])}
    ELSE {}

\* the variables of CNOR nurses in an OR room slot, one set per needed slot
CnorExpected ==
    {{XVar(<<n, k[2], k[3], k[1]>>) : n \in {n \in CnorNurseSet : Qualified(n, k[2])}} :
        k \in CnorNeeded}

\* C7: with special-role coverage on, for every OR room slot with demand > 0 for
\* which a CNOR nurse has a variable, every accepted solution assigns a CNOR
\* nurse to that slot; the model holds one such constraint per such slot and
\* none for the other slots.
C7_SkillMix ==
    /\ pc = "locks" =>
          LET atLeastOne == {TermVars(c) : c \in {c \in cons : c.op = ">=" /\ c.rhs = 1}}
          IN  CnorExpected \subseteq atLeastOne /\ atLeastOne \ ChargeExpected \subseteq CnorExpected
    /\ Solved =>
          \A k \in CnorNeeded : \E n \in CnorNurseSet : n \in AssignedTo(k[1], k[2], k[3])

\* two OR rooms with demand: the CNOR nurse is feasible for one only and works
\* there, the other is staffed by a nurse without the certification
C7_Witness ==
    /\ pc = "done" /\ Solved
    /\ inp.require_cnor_in_or
    /\ OrRoomSet = {"R1", "R2"}
    /\ CnorNurseSet = {"N1"}
    /\ ~Qualified("N1", "R1")
    /\ AssignedTo("Mon", "R1", "Day") = {"N2"}
    /\ AssignedTo("Mon", "R2", "Day") = {"N1"}

\* ------------------------------------------------------------------ objective value
AltWeights ==
    [w_pref |-> 1, w_understaff |-> 3, w_overstaff |-> 2, w_fairness |-> 1, w_weekend |-> 0]
ObjDays == {<<"Mon">>, <<"Sat">>, <<"Mon", "Sun">>}
\* preference tables for a horizon starting on day d: none, one row, a repeated
\* key, a zero row with a row outside the horizon
PrefTables(d) ==
    {<<>>,
     <<PrefRow("N1", d, "Day", 2)>>,
     <<PrefRow("N1", d, "Day", 2), PrefRow("N2", d, "Day", 1), PrefRow("N1", d, "Day", 0 - 1)>>,
     <<PrefRow("N2", d, "Day", 0), PrefRow("N1", d, "Night", 3)>>}
\* <<allow_overstaff, target_shifts_per_nurse_week>>
ObjModes == (BOOLEAN \X {None, Some(1)})

\* two nurses, one room asking for one nurse on each day
InputsObj ==
    CommonInputs \cup
    UNION {{[Base EXCEPT !.nurses = <<Nurse("N1", <<>>, "", 1, MaxCap), Nurse("N2", <<>>, "", 1, MaxCap)>>,
                         !.rooms = <<Room("R1", <<>>, "")>>,
                         !.days = ds,
                         !.demand = DemandAll(ds, <<"R1">>, <<"Day">>, 1),
                         !.prefs = pt,
                         !.weights = w,
                         !.allow_overstaff = m[1],
                         !.target = m[2],
                         !.charge_rooms_tags = {},
                         !.require_cnor_in_or = FALSE] :
              pt \in PrefTables(ds[1]), w \in {DefaultWeights, AltWeights}, m \in ObjModes} :
           ds \in ObjDays}

InitObj == InitWith(InputsObj)
SpecObj == InitObj /\ [][Next]_vars

\* the preference of nurse n for (d, sh): the last row given for it, 0 without one
InputPref(n, d, sh) ==
    LET idx == {i \in DOMAIN inp.prefs :
                  /\ inp.prefs[i].nurse_id = n
                  /\ inp.prefs[i].day = d
                  /\ inp.prefs[i].shift = sh}
    IN IF idx = {} THEN 0 ELSE inp.prefs[Max(idx)].preference

AssignedKeys == {k \in XSet : sol[XVar(k)] = 1}

\* the objective of the assignment in sol, term by term from the arguments
ExpectedObjective ==
    inp.weights.w_pref
        * SumSet(AssignedKeys, [k \in AssignedKeys |-> InputPref(k[1], k[4], k[3])])
    - inp.weights.w_understaff
        * SumSet(HorizonSlots, [k \in HorizonSlots |-> sol[UVar(k)]])
    - (IF inp.allow_overstaff
       THEN inp.weights.w_overstaff * SumSet(HorizonSlots, [k \in HorizonSlots |-> sol[OVar(k)]])
       ELSE 0)
    - (IF inp.target # None
       THEN inp.weights.w_fairness * SumSet(NurseIdSet, [n \in NurseIdSet |-> sol[DevVar(n)]])
       ELSE 0)
    - (IF inp.weights.w_weekend > 0
       THEN inp.weights.w_weekend * Cardinality({k \in AssignedKeys : k[4] \in {"Sat", "Sun"}})
       ELSE 0)

MetaBuilt == pc \in {"output", "done"} \/ (pc = "raised" /\ err.type = "SolverValue")

\* C10: the objective of any assignment the solver returns is w_pref x preferences
\* of the assignments - w_understaff x understaff - w_overstaff x overstaff (if
\* permitted) - w_fairness x deviations (if a target is set) - w_weekend x
\* Sat/Sun assignments (if w_weekend > 0), nothing else; meta reports it when
\* the status is OPTIMAL or FEASIBLE and reports None otherwise.
C10_Objective ==
    MetaBuilt =>
        meta.objective = IF Solved THEN Some(ExpectedObjective) ELSE None

\* both nurses on Monday, one of them again on Sunday: a preference reward, an
\* understaff and an overstaff unit, a deviation and a weekend assignment all
\* enter the reported value
C10_Witness ==
    /\ pc = "done" /\ status = "FEASIBLE"
    /\ inp.days = <<"Mon", "Sun">>
    /\ inp.weights = DefaultWeights
    /\ inp.allow_overstaff /\ inp.target = Some(1)
    /\ InputPref("N1", "Mon", "Day") = 2 /\ InputPref("N2", "Mon", "Day") = 0
    /\ AssignedKeys = {<<"N1", "R1", "Day", "Mon">>, <<"N2", "R1", "Day", "Mon">>,
                       <<"N1", "R1", "Day", "Sun">>}
    /\ sol[UVar(<<"Sun", "R1", "Day">>)] = 1
    /\ sol[OVar(<<"Mon", "R1", "Day">>)] = 1
    /\ sol[DevVar("N1")] = 1 /\ sol[DevVar("N2")] = 0
    /\ meta.objective = Some(0 - 205)

\* ------------------------------------------------------------------ fairness target
NoFairWeights == [DefaultWeights EXCEPT !.w_fairness = 0]
FairDaysShort == {<<"Mon", "Tue">>, <<"Fri", "Sat">>}
FairDaysLong == {<<"Mon", "Tue", "Wed">>, <<"Mon", "Tue", "Wed", "Thu">>}
\* variants of a call: <<preferences?, locks?, weights, weekly cap of N2>>
FairPlain == <<FALSE, FALSE, DefaultWeights, 7>>
FairVariantsLong == {FairPlain, <<TRUE, FALSE, DefaultWeights, 7>>}
FairVariants ==
    FairVariantsLong \cup
        {<<FALSE, TRUE, DefaultWeights, 7>>, <<FALSE, FALSE, NoFairWeights, 7>>,
         <<FALSE, FALSE, DefaultWeights, 0>>}

\* two nurses free of qualifications, one room asking for k nurses every day, a
\* target t; v adds preferences of N1 for the first two days or locks on them
FairCall(ds, k, t, o, v) ==
    [Base EXCEPT !.nurses = <<Nurse("N1", <<>>, "", 1, 7), Nurse("N2", <<>>, "", 1, v[4])>>,
                 !.rooms = <<Room("R1", <<>>, "")>>,
                 !.days = ds,
                 !.demand = DemandAll(ds, <<"R1">>, <<"Day">>, k),
                 !.prefs = IF v[1] THEN <<PrefRow("N1", ds[1], "Day", 2), PrefRow("N1", ds[2], "Day", 2)>>
                           ELSE <<>>,
                 !.lock_rows = IF v[2] THEN <<LockRow(ds[1], "Day", "R1", "N1", 1),
                                              LockRow(ds[2], "Day", "R1", "N1", 1)>>
                               ELSE <<>>,
                 !.weights = v[3],
                 !.allow_overstaff = o,
                 !.target = Some(t),
                 !.charge_rooms_tags = {},
                 !.require_cnor_in_or = FALSE]

InputsFair ==
    CommonInputs
    \cup {FairCall(ds, k, t, o, v) :
            ds \in FairDaysShort, k \in {1, 2}, t \in {1, 2}, o \in BOOLEAN, v \in FairVariants}
    \cup {FairCall(ds, k, t, FALSE, v) :
            ds \in FairDaysLong, k \in {1, 2}, t \in {2, 4}, v \in FairVariantsLong}

InitFair == InitWith(InputsFair)
SpecFair == InitFair /\ [][Next]_vars

\* the assignment keys the qualifications allow
FeasibleKeys ==
    {k \in NurseIdSet \X RoomIdSet \X Range(inp.shifts) \X Range(inp.days) : Qualified(k[1], k[2])}
CountOf(A, n) == Cardinality({k \in A : k[1] = n})
StaffOf(A, slot) == Cardinality({k \in A : k[4] = slot[1] /\ k[2] = slot[2] /\ k[3] = slot[3]})

\* A respects the caps, the rest rule, the role coverage and the locks in force
HardOk(A) ==
    /\ \A n \in NurseIdSet :
          /\ CountOf(A, n) <= CapWeek(n)
          /\ \A d \in Range(inp.days) : Cardinality({k \in A : k[1] = n /\ k[4] = d}) <= CapDay(n)
          /\ RestActive =>
                \A i \in 1..(Len(inp.days) - 1) :
                    Cardinality({k \in A : k[1] = n /\ k[3] = "Night" /\ k[4] = inp.days[i]})
                    + Cardinality({k \in A : k[1] = n /\ k[3] = "Day" /\ k[4] = inp.days[i + 1]}) <= 1
    /\ inp.charge_rooms_tags # {} =>
          \A p \in ChargeNeeded :
              \E k \in A : k[1] \in ChargeNurseSet /\ k[2] \in ChargeRoomSet /\ k[3] = p[2] /\ k[4] = p[1]
    /\ \A c \in CnorNeeded :
          \E k \in A : k[1] \in CnorNurseSet /\ k[2] = c[2] /\ k[3] = c[3] /\ k[4] = c[1]
    /\ \A i \in DOMAIN inp.lock_rows :
          EffectiveLock(i) =>
              <<inp.lock_rows[i].nurse_id, inp.lock_rows[i].room_id,
                inp.lock_rows[i].shift, inp.lock_rows[i].day>> \in A

\* every nurse's total equals the target
OnTarget(A) == \A n \in NurseIdSet : CountOf(A, n) = inp.target[1]

\* the demand is sufficient for an assignment on target that the other
\* constraints allow: no slot takes more nurses than it asks for unless
\* overstaffing is permitted
BalancedAllowed ==
    \E A \in SUBSET FeasibleKeys :
        /\ OnTarget(A) /\ HardOk(A)
        /\ inp.allow_overstaff \/ \A slot \in HorizonSlots : StaffOf(A, slot) <= InputDemand(slot[1], slot[2], slot[3])

\* an assignment on target that also staffs every slot exactly
BalancedExact ==
    \E A \in SUBSET FeasibleKeys :
        /\ OnTarget(A) /\ HardOk(A)
        /\ \A slot \in HorizonSlots : StaffOf(A, slot) = InputDemand(slot[1], slot[2], slot[3])

\* total[n] counts the nurse's assignments and deviation[n] is non-negative and
\* at least total[n] - T and T - total[n]
DeviationBounds ==
    \A n \in NurseIdSet :
        /\ sol[TotVar(n)] = CountOf(AssignedKeys, n)
        /\ sol[DevVar(n)] >= 0
        /\ sol[DevVar(n)] >= sol[TotVar(n)] - inp.target[1]
        /\ sol[DevVar(n)] >= inp.target[1] - sol[TotVar(n)]

\* C11 as stated: with a target T, whenever an assignment with every total = T
\* is allowed by the demand and the other constraints, an OPTIMAL solve gives
\* every nurse exactly T assignments.
C11_OptimalMeetsTarget ==
    (status = "OPTIMAL" /\ inp.target # None) =>
        /\ DeviationBounds
        /\ BalancedAllowed => OnTarget(AssignedKeys)

\* no other term of the objective can pay for a deviation: the fairness weight
\* is positive, the others non-negative, no assignment carries a preference
\* reward or penalty, and no weekend penalty applies
FairnessDecides ==
    /\ inp.weights.w_fairness > 0
    /\ inp.weights.w_understaff >= 0 /\ inp.weights.w_overstaff >= 0
    /\ \A k \in FeasibleKeys : inp.weights.w_pref * InputPref(k[1], k[4], k[3]) = 0
    /\ inp.weights.w_weekend <= 0 \/ \A i \in DOMAIN inp.days : inp.days[i] \notin {"Sat", "Sun"}

\* C11 (amended): with a target T, a positive fairness weight and no preference
\* or weekend term in play, whenever some assignment gives every nurse exactly T
\* shifts, staffs every slot exactly to its demand and respects the hard
\* constraints, an OPTIMAL solve gives every nurse exactly T assignments with
\* deviation 0; deviation[n] is always >= 0, >= total[n] - T and >= T - total[n].
C11_OnTargetWhenFree ==
    (status = "OPTIMAL" /\ inp.target # None) =>
        /\ DeviationBounds
        /\ (FairnessDecides /\ BalancedExact) =>
              /\ OnTarget(AssignedKeys)
              /\ \A n \in NurseIdSet : sol[DevVar(n)] = 0

\* the scenario: target 4, two nurses, four days asking for both of them
C11_Witness ==
    /\ pc = "done" /\ status = "OPTIMAL"
    /\ inp.target = Some(4)
    /\ Len(inp.days) = 4
    /\ FairnessDecides
    /\ \A n \in NurseIdSet : CountOf(AssignedKeys, n) = 4 /\ sol[DevVar(n)] = 0
    /\ Cardinality(NurseIdSet) = 2

\* ------------------------------------------------------------------ rest rule across rooms
\* the rooms in which nurse n works shift sh on day d
RoomsWorked(n, sh, d) == {rid \in RoomIdSet : <<rid, sh>> \in WorkOn(n, d)}

\* C12: with the rest rule active and at least two selected days, in every
\* accepted solution a nurse works Night in at most one room on every selected
\* day but the last and Day in at most one room on every selected day but the
\* first, whatever the daily cap.
C12_RestCapsRooms ==
    (Solved /\ RestActive /\ Len(inp.days) >= 2) =>
        \A n \in NurseIdSet : \A i \in DOMAIN inp.days :
            /\ i < Len(inp.days) => Cardinality(RoomsWorked(n, "Night", inp.days[i])) <= 1
            /\ i > 1 => Cardinality(RoomsWorked(n, "Day", inp.days[i])) <= 1

\* under a daily cap of 2 the nurse works the first day's Day shift in two
\* rooms, a combination the rule leaves alone
C12_Witness ==
    /\ pc = "done" /\ Solved /\ RestActive
    /\ inp.days = <<"Mon", "Tue">>
    /\ CapDay("N1") = 2
    /\ RoomsWorked("N1", "Day", "Mon") = {"R1", "R2"}
    /\ RoomsWorked("N1", "Night", "Mon") = {}
====
